---- MODULE Spec2Model ----
(***************************************************************************)
(* SongWhisper: the "find song" handler and the browser automation         *)
(* sequence open_song_with_selenium, in its two destination-site flows:    *)
(*   profile "A" = src/main.py      (YouTube, Shorts link, video.play())   *)
(*   profile "B" = src/main_etc.py  (BUGS Music, player window, popup,     *)
(*                                   play button, audio.play())            *)
(* Under Spec one behaviour is one press of the find-song button.  Every    *)
(* call into the browser driver either returns or raises; which one is an  *)
(* input the environment chooses at the step that makes the call.          *)
(* Under RecSpec the behaviours are the Start and Done button presses      *)
(* interleaved with the capture threads they start.  Under QuerySpec the   *)
(* Query Builder is applied to a transcript drawn from a bounded set.      *)
(* Under BothFlowsSpec the same call is made in one script and then in the *)
(* other, so that the outcomes of the two flows can be compared.           *)
(***************************************************************************)
EXTENDS Integers, Sequences, FiniteSets

\* ------------------------------------------------------------------ bounds
\* Largest number of browser windows the site may leave open after the
\* first-result click.
MaxWindows == 3

\* Largest number of presses of the Start button (capture threads started).
MaxStarts == 2

\* Largest number of blocks the audio callbacks append to audio_chunks.
MaxChunks == 2

\* Largest number of entries of the file list box.
MaxFiles == 2

\* Second of the wall clock at which the model stops looking.
MaxClock == 2

\* Largest length of the short transcripts given to the Query Builder.
MaxLen == 2

\* ------------------------------------------------------- program constants
\* recognized_text[:50] / len(recognized_text) > 50
TitleLimit == 50

Profiles == {"A", "B"}

Range(s) == {s[i] : i \in 1..Len(s)}

Rep(c, n) == [i \in 1..n |-> c]

\* --------------------------------------------------------- Query Builder
\* Text is a sequence of Unicode code points.

\* urllib.parse._ALWAYS_SAFE: A-Z a-z 0-9 _ . - ~
AlwaysSafe == (65..90) \cup (97..122) \cup (48..57) \cup {95, 46, 45, 126}

\* one upper-case hexadecimal digit, as a code point ('0'..'9', 'A'..'F')
HexDigit(n) == IF n < 10 THEN 48 + n ELSE 55 + n

\* The code points U+D800..U+DFFF: a Python str may hold one on its own,
\* UTF-8 has no encoding for it.
Surrogates == 55296..57343

\* What stands for a raised UnicodeEncodeError where bytes or an encoded
\* text are expected: no encoding yields it.
UnicodeEncodeError == <<-1>>

\* str.encode("utf-8") of one code point; strict, so a surrogate raises
Utf8(cp) ==
    IF cp \in Surrogates THEN UnicodeEncodeError
    ELSE IF cp < 128 THEN <<cp>>
    ELSE IF cp < 2048 THEN <<192 + (cp \div 64), 128 + (cp % 64)>>
    ELSE IF cp < 65536 THEN
        <<224 + (cp \div 4096), 128 + ((cp \div 64) % 64), 128 + (cp % 64)>>
    ELSE <<240 + (cp \div 262144), 128 + ((cp \div 4096) % 64),
           128 + ((cp \div 64) % 64), 128 + (cp % 64)>>

RECURSIVE EncodeEach(_)
EncodeEach(s) ==
    IF s = <<>> THEN <<>> ELSE Utf8(Head(s)) \o EncodeEach(Tail(s))

\* str.encode("utf-8"): the bytes of every code point in turn, or the
\* exception when one of them is a surrogate
Encode(s) ==
    IF \E i \in 1..Len(s) : s[i] \in Surrogates THEN UnicodeEncodeError
    ELSE EncodeEach(s)

\* urllib.parse.quote_from_bytes: a safe byte is kept, any other is %XX
QuoteByte(b, safe) ==
    IF b \in AlwaysSafe \cup safe THEN <<b>>
    ELSE <<37, HexDigit(b \div 16), HexDigit(b % 16)>>

RECURSIVE QuoteBytes(_, _)
QuoteBytes(bs, safe) ==
    IF bs = <<>> THEN <<>>
    ELSE QuoteByte(Head(bs), safe) \o QuoteBytes(Tail(bs), safe)

\* urllib.parse.quote(string, safe): string.encode("utf-8") first, whose
\* exception leaves quote
Quote(s, safe) ==
    IF Encode(s) = UnicodeEncodeError THEN UnicodeEncodeError
    ELSE QuoteBytes(Encode(s), safe)

\* quote_plus that takes '+' for a safe character: a '+' of the text goes
\* into the URL as it is.
QuotePlus_PlusSafe(s) ==
    IF 32 \notin Range(s) THEN Quote(s, {43})
    ELSE LET q == Quote(s, {32, 43})
         IN  [i \in 1..Len(q) |-> IF q[i] = 32 THEN 43 ELSE q[i]]

\* urllib.parse.quote_plus(string): space is kept by quote, then becomes '+'
QuotePlus(s) ==
    IF 32 \notin Range(s) THEN Quote(s, {})
    ELSE LET q == Quote(s, {32})
         IN  [i \in 1..Len(q) |-> IF q[i] = 32 THEN 43 ELSE q[i]]

\* "https://www.youtube.com/results?search_query="
EndpointA ==
    <<104, 116, 116, 112, 115, 58, 47, 47, 119, 119, 119, 46, 121, 111, 117,
      116, 117, 98, 101, 46, 99, 111, 109, 47, 114, 101, 115, 117, 108, 116,
      115, 63, 115, 101, 97, 114, 99, 104, 95, 113, 117, 101, 114, 121, 61>>

\* "https://music.bugs.co.kr/search/lyrics?q="
EndpointB ==
    <<104, 116, 116, 112, 115, 58, 47, 47, 109, 117, 115, 105, 99, 46, 98,
      117, 103, 115, 46, 99, 111, 46, 107, 114, 47, 115, 101, 97, 114, 99,
      104, 47, 108, 121, 114, 105, 99, 115, 63, 113, 61>>

Endpoint(p) == IF p = "A" THEN EndpointA ELSE EndpointB

\* "..."
Ellipsis == <<46, 46, 46>>

\* SongTitle that already cuts a text of exactly 50 characters.
SongTitle_CutsAtLimit(text) ==
    IF Len(text) >= TitleLimit THEN SubSeq(text, 1, TitleLimit) \o Ellipsis
    ELSE text

\* recognized_text[:50] + "..." if len(recognized_text) > 50 else recognized_text
SongTitle(text) ==
    IF Len(text) > TitleLimit THEN SubSeq(text, 1, TitleLimit) \o Ellipsis
    ELSE text

\* process_recognition_result(recognized_text).  An exception of quote_plus
\* leaves the function: nothing is returned.
process_recognition_result(p, text) ==
    IF text = <<>> THEN [error |-> "not_recognized"]
    ELSE IF QuotePlus(text) = UnicodeEncodeError
    THEN [raised |-> "UnicodeEncodeError"]
    ELSE [song_url |-> Endpoint(p) \o QuotePlus(text),
          song_title |-> SongTitle(text)]

\* Transcripts recognize_lyrics may return: "", "a b", two Hangul syllables
\* (U+C548 U+B155), one longer than the title limit, and one holding a
\* surrogate on its own (U+D800).
Transcripts ==
    {<<>>, <<97, 32, 98>>, <<50504, 45397>>, Rep(97, TitleLimit + 1),
     <<97, 55296>>}

\* The characters the Query Builder is tried on: space + & = % a, e with
\* acute accent (two bytes), a Hangul syllable (three), an emoji (four),
\* and a surrogate on its own (no encoding).
QueryAlphabet == {32, 43, 38, 61, 37, 97, 233, 50504, 128512, 55296}

\* every text of at most MaxLen of these characters, the empty one included
ShortTexts == UNION {[1..n -> QueryAlphabet] : n \in 0..MaxLen}

\* the same texts behind TitleLimit - 1 letters: lengths around the limit
LongTexts == {Rep(97, TitleLimit - 1) \o s : s \in ShortTexts}

QueryTexts == ShortTexts \cup LongTexts

\* ------------------------------------------------------------------ state
VARIABLES
    profile,          \* which script runs: "A" (main.py) or "B" (main_etc.py)
    pc,               \* position of the GUI thread inside find_song
    recognized_text,  \* find_song's local recognized_text
    processed,        \* find_song's local processed
    status_label,     \* text of self.status_label
    song_info_label,  \* text of self.song_info_label
    dialog,           \* the message box shown last, if any
    lyrics_label,     \* what self.lyrics_label shows (flow B)
    escaped,          \* TRUE when an exception left find_song or
                      \* stop_recording
    session,          \* the browser session: "none", "open", "quit"
    handles,          \* driver.window_handles, in enumeration order
    active,           \* the window with focus (0: there is no session)
    ops,              \* the launcher and driver calls made so far, in order
    printed,          \* the lines open_song_with_selenium printed, in order
    ret,              \* what open_song_with_selenium handed to its caller
    step,             \* how each step of the sequence ended
    selected_file,    \* find_song's local selected_file (0: none)
    recording,        \* the global flag recording
    audio_chunks,     \* the global list audio_chunks: of each block, the
                      \* capture thread whose stream delivered it
    tpc,              \* position of each capture thread inside record_audio
    cb,               \* position of each stream's callback
    file_listbox,     \* the file names in self.file_listbox, top first
    disk,             \* of each file name, the blocks written under it
                      \* (<<>>: no such file)
    clock,            \* datetime.now(), in seconds
    q_text,           \* the transcript given to the Query Builder
    q_result,         \* what the Query Builder returned for it
    other_run         \* how the same call ended in the other flow, when the
                      \* two flows are run one after the other

vars == <<profile, pc, recognized_text, processed, status_label,
          song_info_label, dialog, lyrics_label, escaped, session, handles,
          active, ops,
          printed, ret, step, selected_file, recording, audio_chunks, tpc,
          cb, file_listbox, disk, clock, q_text, q_result, other_run>>

\* which script runs, and what is kept of the other one's run
flow == <<profile, other_run>>

\* no run of the other flow is kept
NoRun == [kind |-> "none", open |-> FALSE, ret |-> "pending"]

gui == <<recognized_text, processed, status_label, song_info_label, dialog,
         lyrics_label, escaped, selected_file>>

\* the recorder: the globals, the capture threads, the saved files
rec == <<recording, audio_chunks, tpc, cb, file_listbox, disk, clock>>

\* the Query Builder applied on its own
query == <<q_text, q_result>>

\* the browser side: open_song_with_selenium
browser == <<session, handles, active, ops, printed, ret, step>>

\* the capture threads, by order of the Start press that made them
Threads == 1..MaxStarts

\* the file names: the second at which the file was written
FileNames == 1..MaxClock

StepNames ==
    {"launch", "open", "first", "switch", "popup", "play", "fallback"}

\* The window the browser starts with.
FirstWindow == 1

\* Window lists the browser may hold after the first-result click: distinct
\* handles, the original window among them, in any enumeration order.
WindowLists ==
    {hs \in UNION {[1..n -> 1..MaxWindows] : n \in 1..MaxWindows} :
        /\ \A i, j \in 1..Len(hs) : i # j => hs[i] # hs[j]
        /\ FirstWindow \in Range(hs)}

\* find_song's locals, the widgets and the browser before the find-song
\* button is pressed.
GuiFresh ==
    /\ profile \in Profiles
    /\ other_run = NoRun
    /\ pc = "idle"
    /\ selected_file = 0
    /\ recognized_text = <<>>
    /\ processed = [unset |-> TRUE]
    /\ song_info_label = <<>>
    /\ dialog = "none"
    /\ lyrics_label = [shown |-> "placeholder", text |-> <<>>]
    /\ escaped = FALSE
    /\ session = "none"
    /\ handles = <<>>
    /\ active = 0
    /\ ops = <<>>
    /\ printed = <<>>
    /\ ret = "pending"
    /\ step = [s \in StepNames |-> "none"]

\* The window right after construction: the status label shows its first
\* text.
GuiStart ==
    /\ GuiFresh
    /\ status_label = "start"

\* The recorder right after construction: recording = False,
\* audio_chunks = [], no thread, an empty list box, nothing on disk.
RecStart ==
    /\ recording = FALSE
    /\ audio_chunks = <<>>
    /\ tpc = [t \in Threads |-> "unborn"]
    /\ cb = [t \in Threads |-> "idle"]
    /\ file_listbox = <<>>
    /\ disk = [f \in FileNames |-> <<>>]
    /\ clock = 1

\* The Query Builder has not been applied on its own.
QueryStart ==
    /\ q_text = <<>>
    /\ q_result = [unset |-> TRUE]

\* The recorder after one recording was made and saved: one block, under
\* the name of the second it was saved at; the capture thread has ended and
\* audio_chunks still holds the block.
RecOneSaved ==
    /\ recording = FALSE
    /\ audio_chunks = <<1>>
    /\ tpc = [t \in Threads |-> IF t = 1 THEN "ended" ELSE "unborn"]
    /\ cb = [t \in Threads |-> "idle"]
    /\ file_listbox = <<1>>
    /\ disk = [f \in FileNames |-> IF f = 1 THEN <<1>> ELSE <<>>]
    /\ clock = 1

\* The states in which the find-song button is pressed: the list box is
\* empty and the status label shows its first text, or one recording has
\* been made and saved and the label tells of it.
Init ==
    /\ GuiFresh
    /\ \/ RecStart /\ status_label = "start"
       \/ RecOneSaved /\ status_label = "saved"
    /\ QueryStart

\* The Query Builder on its own: any of the texts is about to be given to it.
QueryInit ==
    /\ GuiStart
    /\ RecStart
    /\ q_text \in QueryTexts
    /\ q_result = [unset |-> TRUE]

\* The recorder on its own, from construction.
RecInit ==
    /\ GuiStart
    /\ RecStart
    /\ QueryStart

\* ------------------------------------------------- pieces of the actions
Calls(cs) == ops' = ops \o cs

Say(msgs) == printed' = printed \o msgs

Outcome(s, o) == step' = [step EXCEPT ![s] = o]

SameSession == UNCHANGED <<session, handles, active>>

\* driver.quit(): the browser process and all its windows are gone
Quit == session' = "quit" /\ handles' = <<>> /\ active' = 0

\* `return v` (or, for v = "raised", an exception leaving the function)
Return(v) == ret' = v /\ pc' = "returned"

\* ------------------------------------------------------------- find_song
\* FindSongStart without the `return` after the warning: with nothing
\* selected the handler goes on to recognition and to the browser.
FindSongStart_NoReturn(sel, raises, text) ==
    /\ pc = "idle"
    /\ sel \in 0..Len(file_listbox)
    /\ UNCHANGED <<flow, rec, query, browser, lyrics_label>>
    /\ selected_file' = IF sel # 0 THEN file_listbox[sel] ELSE 0
    /\ IF raises THEN
            /\ status_label' = "recognizing"
            /\ escaped' = TRUE
            /\ pc' = "done"
            /\ dialog' = IF sel # 0 THEN dialog ELSE "warning"
            /\ UNCHANGED <<recognized_text, processed, song_info_label>>
       ELSE IF text = <<>> THEN
            /\ recognized_text' = text
            /\ status_label' = "recognition_failed"
            /\ dialog' = "error"
            /\ pc' = "done"
            /\ UNCHANGED <<processed, song_info_label, escaped>>
       ELSE LET res == process_recognition_result(profile, text) IN
            /\ recognized_text' = text
            /\ IF "raised" \in DOMAIN res THEN
                    /\ status_label' = "recognizing"
                    /\ escaped' = TRUE
                    /\ pc' = "done"
                    /\ dialog' = IF sel # 0 THEN dialog ELSE "warning"
                    /\ UNCHANGED <<processed, song_info_label>>
               ELSE IF "error" \in DOMAIN res THEN
                    /\ processed' = res
                    /\ status_label' = res.error
                    /\ dialog' = "error"
                    /\ pc' = "done"
                    /\ UNCHANGED <<song_info_label, escaped>>
               ELSE /\ processed' = res
                    /\ status_label' = "recognizing"
                    /\ song_info_label' = res.song_title
                    /\ pc' = "launch"
                    /\ dialog' = IF sel # 0 THEN dialog ELSE "warning"
                    /\ UNCHANGED escaped

\* find_song from the button press to the call of open_song_with_selenium.
\* sel: the first selected row of the list box (0: none is selected);
\* raises: recognize_lyrics raised; text: what recognize_lyrics returned.
\* A transcript that is not encodable makes the print of it (strict stdout)
\* or process_recognition_result raise; either exception leaves the handler
\* with the transcript assigned and the status label at the recognizing
\* text.  (In flow B on a strict stdout the print inside recognize_lyrics
\* raises first: that is the case raises = TRUE.)
FindSongStart(sel, raises, text) ==
    /\ pc = "idle"
    /\ sel \in 0..Len(file_listbox)
    /\ UNCHANGED <<flow, rec, query, browser, lyrics_label>>
    /\ selected_file' = IF sel # 0 THEN file_listbox[sel] ELSE 0
    /\ IF sel = 0 THEN
            /\ dialog' = "warning"
            /\ pc' = "done"
            /\ UNCHANGED <<recognized_text, processed, status_label,
                           song_info_label, escaped>>
       ELSE IF raises THEN
            /\ status_label' = "recognizing"
            /\ escaped' = TRUE
            /\ pc' = "done"
            /\ UNCHANGED <<recognized_text, processed, song_info_label, dialog>>
       ELSE IF text = <<>> THEN
            /\ recognized_text' = text
            /\ status_label' = "recognition_failed"
            /\ dialog' = "error"
            /\ pc' = "done"
            /\ UNCHANGED <<processed, song_info_label, escaped>>
       ELSE LET res == process_recognition_result(profile, text) IN
            /\ recognized_text' = text
            /\ IF "raised" \in DOMAIN res THEN
                    /\ status_label' = "recognizing"
                    /\ escaped' = TRUE
                    /\ pc' = "done"
                    /\ UNCHANGED <<processed, song_info_label, dialog>>
               ELSE IF "error" \in DOMAIN res THEN
                    /\ processed' = res
                    /\ status_label' = res.error
                    /\ dialog' = "error"
                    /\ pc' = "done"
                    /\ UNCHANGED <<song_info_label, escaped>>
               ELSE /\ processed' = res
                    /\ status_label' = "recognizing"
                    /\ song_info_label' = res.song_title
                    /\ pc' = "launch"
                    /\ UNCHANGED <<dialog, escaped>>

\* What recognize_lyrics may return to extract_lyrics: "" and "a b".
Lyrics == {<<>>, <<97, 32, 98>>}

\* extract_lyrics (flow B only), the whole handler.  sel, raises, text as
\* for find_song; the handler's locals are its own, and an exception of
\* recognize_lyrics ends it with the status text already set.
ExtractLyrics(sel, raises, text) ==
    /\ profile = "B"
    /\ pc = "idle"
    /\ sel \in 0..Len(file_listbox)
    /\ UNCHANGED <<flow, pc, rec, query, browser, recognized_text, processed,
                   song_info_label, escaped, selected_file>>
    /\ IF sel = 0 THEN
            /\ dialog' = "warning"
            /\ UNCHANGED <<status_label, lyrics_label>>
       ELSE /\ status_label' = "extracting"
            /\ UNCHANGED dialog
            /\ IF raises THEN UNCHANGED lyrics_label
               ELSE lyrics_label' =
                        IF text # <<>> THEN [shown |-> "lyrics", text |-> text]
                        ELSE [shown |-> "failed", text |-> <<>>]

\* find_song after open_song_with_selenium: the returned value is dropped
\* and the status label is set; an exception leaves the handler.
FindSongEnd ==
    /\ pc = "returned"
    /\ pc' = "done"
    /\ IF ret = "raised" THEN escaped' = TRUE /\ UNCHANGED status_label
       ELSE /\ status_label' = IF profile = "A" THEN "page_opened" ELSE "in_progress"
            /\ UNCHANGED escaped
    /\ UNCHANGED <<flow, rec, query, recognized_text, processed,
                   song_info_label, dialog, lyrics_label, selected_file,
                   browser>>

\* ---------------------------------------------- open_song_with_selenium
\* LaunchFailure without B's try/except: the exception leaves the function
\* in both flows.
LaunchFailure_Raises ==
    /\ SameSession
    /\ Say(<<>>)
    /\ Return("raised")

\* Session Launcher.  B wraps it in try/except and returns None; A has no
\* handler, so the exception leaves the function.
LaunchFailure ==
    /\ SameSession
    /\ IF profile = "B" THEN Say(<<"launch_failed">>) /\ Return("None")
       ELSE Say(<<>>) /\ Return("raised")

Launch(in) ==
    /\ pc = "launch"
    /\ Calls(IF in = "install_raises" THEN <<"install">>
             ELSE <<"install", "Chrome">>)
    /\ Outcome("launch", in)
    /\ IF in = "ok" THEN
            /\ session' = "open"
            /\ handles' = <<FirstWindow>>
            /\ active' = FirstWindow
            /\ Say(IF profile = "B" THEN <<"driver_started">> ELSE <<>>)
            /\ pc' = "open"
            /\ UNCHANGED ret
       ELSE LaunchFailure
    /\ UNCHANGED <<flow, rec, query, gui>>

\* OpenFailure that forgets driver.quit(): None is returned and the browser
\* keeps running.
OpenFailure_NoQuit ==
    /\ Calls(<<"get">>)
    /\ Say(IF profile = "B" THEN <<"page_failed">> ELSE <<>>)
    /\ SameSession
    /\ Return(IF profile = "B" THEN "None" ELSE "raised")

\* Step 1, driver.get(song_url) raised.  B: quit and return None.  A: no
\* handler, the exception leaves the function with the browser running.
OpenFailure ==
    IF profile = "B" THEN
        /\ Calls(<<"get", "quit">>)
        /\ Say(<<"page_failed">>)
        /\ Quit
        /\ Return("None")
    ELSE
        /\ Calls(<<"get">>)
        /\ Say(<<>>)
        /\ SameSession
        /\ Return("raised")

OpenPage(in) ==
    /\ pc = "open"
    /\ Outcome("open", in)
    /\ IF in = "ok" THEN
            /\ Calls(<<"get">>)
            /\ Say(IF profile = "B" THEN <<"page_opened">> ELSE <<>>)
            /\ SameSession
            /\ pc' = "first"
            /\ UNCHANGED ret
       ELSE OpenFailure
    /\ UNCHANGED <<flow, rec, query, gui>>

\* FirstFailure with the failure policy of a skip step: the failure is
\* printed and the sequence goes on to the next step.
FirstFailure_Skip(cs) ==
    /\ Calls(cs)
    /\ Say(<<"first_failed">>)
    /\ SameSession
    /\ pc' = IF profile = "B" THEN "switch" ELSE "fallback"
    /\ UNCHANGED ret

\* FirstFailure with B's handler in both flows: quit and return None.
FirstFailure_QuitAlways(cs) ==
    /\ Calls(cs \o <<"quit">>)
    /\ Say(<<"first_failed">>)
    /\ Quit
    /\ Return("None")

\* Step 2 failed after the calls cs.  B: quit and return None.  A: return
\* the driver, the browser stays on the result page.
FirstFailure(cs) ==
    IF profile = "B" THEN
        /\ Calls(cs \o <<"quit">>)
        /\ Say(<<"first_failed">>)
        /\ Quit
        /\ Return("None")
    ELSE
        /\ Calls(cs)
        /\ Say(<<"first_failed">>)
        /\ SameSession
        /\ Return("driver")

\* Step 2: find the first result and click it.  hs: the windows the browser
\* holds once the click has been handled.
FirstResult(in, hs) ==
    /\ pc = "first"
    /\ Outcome("first", in)
    /\ IF in = "ok" THEN
            /\ Calls(<<"find_first", "click_first">>)
            /\ Say(IF profile = "B" THEN <<"first_clicked", "selector_skipped">>
                     ELSE <<"first_clicked">>)
            /\ handles' = hs
            /\ UNCHANGED <<session, active, ret>>
            /\ pc' = IF profile = "B" THEN "switch" ELSE "fallback"
       ELSE FirstFailure(IF in = "find_raises" THEN <<"find_first">>
                          ELSE <<"find_first", "click_first">>)
    /\ UNCHANGED <<flow, rec, query, gui>>

\* SwitchTarget without the `break`: the loop goes on and the last window
\* that is not the current one keeps the focus.
RECURSIVE SwitchTarget_Last(_, _)
SwitchTarget_Last(hs, main) ==
    IF hs = <<>> THEN 0
    ELSE LET rest == SwitchTarget_Last(Tail(hs), main)
         IN  IF rest # 0 THEN rest
             ELSE IF Head(hs) # main THEN Head(hs) ELSE 0

\* for h in handles: if h != main_handle: switch, break.  The handle the
\* loop switches to, 0 when it finds none.
RECURSIVE SwitchTarget(_, _)
SwitchTarget(hs, main) ==
    IF hs = <<>> THEN 0
    ELSE IF Head(hs) # main THEN Head(hs)
    ELSE SwitchTarget(Tail(hs), main)

\* SwitchFailure with the handler of an abort step: quit and return None.
SwitchFailure_Abort(cs, a) ==
    /\ Calls(cs \o <<"quit">>)
    /\ Say(<<"switch_failed">>)
    /\ Quit
    /\ Return("None")

\* Step 3, except branch: the failure is printed and the sequence goes on.
\* cs: the calls made before the exception; a: the window that has focus now.
SwitchFailure(cs, a) ==
    /\ Calls(cs)
    /\ Say(<<"switch_failed">>)
    /\ active' = a
    /\ pc' = "popup"
    /\ UNCHANGED <<session, handles, ret>>

\* Step 3 (B only): switch to the first window that is not the current one.
\* in: which call raises, if any; moved: whether a switch_to.window call that
\* raised had moved the focus before it raised.
ContextSwitch(in, moved) ==
    /\ pc = "switch"
    /\ Outcome("switch", in)
    /\ LET main_handle == active
           target == SwitchTarget(handles, main_handle)
           switching == Len(handles) > 1 /\ target # 0
       IN  /\ in = "switch_raises" => switching
           /\ moved => in = "switch_raises"
           /\ IF in = "current_raises" THEN
                   SwitchFailure(<<"current_window_handle">>, active)
              ELSE IF in = "handles_raises" THEN
                   SwitchFailure(<<"current_window_handle", "window_handles">>,
                                 active)
              ELSE IF in = "switch_raises" THEN
                   SwitchFailure(<<"current_window_handle", "window_handles",
                                   "switch_to">>,
                                 IF moved THEN target ELSE active)
              ELSE /\ Calls(IF switching
                            THEN <<"current_window_handle", "window_handles",
                                   "switch_to">>
                            ELSE <<"current_window_handle", "window_handles">>)
                   /\ active' = IF switching THEN target ELSE active
                   /\ Say(IF Len(handles) > 1
                          THEN (IF switching THEN <<"switched">> ELSE <<>>)
                          ELSE <<"no_new_window">>)
                   /\ pc' = "popup"
                   /\ UNCHANGED <<session, handles, ret>>
    /\ UNCHANGED <<flow, rec, query, gui>>

\* PopupFailure with the failure policy of an abort step.
PopupFailure_Abort(cs) ==
    /\ Calls(cs \o <<"quit">>)
    /\ Say(<<"popup_failed">>)
    /\ Quit
    /\ Return("None")

\* PopupFailure that retries: a second lookup of the close button is made
\* before the sequence goes on.
PopupFailure_Retry(cs) ==
    /\ Calls(cs \o <<"find_close">>)
    /\ Say(<<"popup_failed">>)
    /\ pc' = "play"
    /\ UNCHANGED <<session, handles, active, ret>>

\* PopupFailure that goes back to the window switch instead of on to the
\* play button.
PopupFailure_Back(cs) ==
    /\ Calls(cs)
    /\ Say(<<"popup_failed">>)
    /\ pc' = "switch"
    /\ UNCHANGED <<session, handles, active, ret>>

\* Step 4, except branch: the failure is printed and the sequence goes on.
PopupFailure(cs) ==
    /\ Calls(cs)
    /\ Say(<<"popup_failed">>)
    /\ pc' = "play"
    /\ UNCHANGED <<session, handles, active, ret>>

\* Step 4 (B only): close the login popup if it is there.
InterstitialDismiss(in) ==
    /\ pc = "popup"
    /\ Outcome("popup", in)
    /\ IF in = "ok" THEN
            /\ Calls(<<"find_close", "click_close">>)
            /\ Say(<<"popup_closed">>)
            /\ pc' = "play"
            /\ UNCHANGED <<session, handles, active, ret>>
       ELSE PopupFailure(IF in = "find_raises" THEN <<"find_close">>
                          ELSE <<"find_close", "click_close">>)
    /\ UNCHANGED <<flow, rec, query, gui>>

\* PlaybackEngage with the fallback in a `finally` branch instead of the
\* except branch: it runs after a successful click too.
PlaybackEngage_Finally(in) ==
    /\ pc = "play"
    /\ Outcome("play", in)
    /\ Calls(IF in = "find_raises" THEN <<"find_play">>
             ELSE <<"find_play", "click_play">>)
    /\ Say(IF in = "ok" THEN <<"play_clicked">> ELSE <<>>)
    /\ pc' = "fallback"
    /\ UNCHANGED <<flow, rec, query, gui, session, handles, active, ret>>

\* Step 5 (B only): find the play button and click it; when either call
\* raises, control enters the except branch, which is the fallback.
PlaybackEngage(in) ==
    /\ pc = "play"
    /\ Outcome("play", in)
    /\ Calls(IF in = "find_raises" THEN <<"find_play">>
             ELSE <<"find_play", "click_play">>)
    /\ IF in = "ok" THEN Say(<<"play_clicked">>) /\ Return("driver")
       ELSE Say(<<>>) /\ pc' = "fallback" /\ UNCHANGED ret
    /\ UNCHANGED <<flow, rec, query, gui, session, handles, active>>

\* FallbackFailure that gives the session up: quit and return None.
FallbackFailure_Quit ==
    /\ Say(<<"js_failed">>)
    /\ Quit
    /\ Return("None")

\* Playback Fallback, except branch: the failure is printed, nothing else.
FallbackFailure ==
    /\ Say(<<"js_failed">>)
    /\ SameSession
    /\ Return("driver")

\* Playback Fallback: execute_script("...play()"), then return driver.
PlaybackFallback(in) ==
    /\ pc = "fallback"
    /\ Outcome("fallback", in)
    /\ Calls(<<"script">>)
    /\ IF in = "ok" THEN Say(<<"js_played">>) /\ SameSession /\ Return("driver")
       ELSE FallbackFailure
    /\ UNCHANGED <<flow, rec, query, gui>>

LaunchInputs == {"ok", "install_raises", "chrome_raises"}
CallInputs == {"ok", "raises"}
ElementInputs == {"ok", "find_raises", "click_raises"}
SwitchInputs == {"ok", "current_raises", "handles_raises", "switch_raises"}

Next ==
    \/ \E sel \in 0..MaxFiles, raises \in BOOLEAN, text \in Transcripts :
            FindSongStart(sel, raises, text)
    \/ \E sel \in 0..MaxFiles, raises \in BOOLEAN, text \in Lyrics :
            ExtractLyrics(sel, raises, text)
    \/ \E in \in LaunchInputs : Launch(in)
    \/ \E in \in CallInputs : OpenPage(in)
    \/ \E in \in ElementInputs, hs \in WindowLists : FirstResult(in, hs)
    \/ \E in \in SwitchInputs, moved \in BOOLEAN : ContextSwitch(in, moved)
    \/ \E in \in ElementInputs : InterstitialDismiss(in)
    \/ \E in \in ElementInputs : PlaybackEngage(in)
    \/ \E in \in CallInputs : PlaybackFallback(in)
    \/ FindSongEnd

Spec == Init /\ [][Next]_vars

\* The handler is straight-line code on one thread: a step that can run does.
FairSpec == Spec /\ WF_vars(Next)

\* ------------------------------------------------------------ the recorder
\* Positions of a capture thread inside record_audio: "unborn" (not
\* created), "set_flag" (before recording = True), "reset" (before
\* audio_chunks = []), "open" (before the stream is opened), "check" (at the
\* loop condition), "sleep" (inside sd.sleep(100)), "closing" (past the
\* loop, leaving the with block), "ended".
Alive == {"set_flag", "reset", "open", "check", "sleep", "closing"}

\* positions at which the thread's stream is started and delivers blocks:
\* from entering the with block until InputStream.__exit__ has stopped it,
\* the position past the loop included
Streaming == {"check", "sleep", "closing"}

\* the blocks whose callback is past `if recording` and about to append
InFlight == Cardinality({t \in Threads : cb[t] = "append"})

\* start_recording: the label is set, a new thread is created and started.
\* Nothing is looked at first: not recording, not an earlier thread.
StartRecording ==
    /\ pc = "idle"
    /\ \E t \in Threads :
            /\ tpc[t] = "unborn"
            /\ \A u \in Threads : u < t => tpc[u] # "unborn"
            /\ tpc' = [tpc EXCEPT ![t] = "set_flag"]
    /\ status_label' = "recording"
    /\ UNCHANGED <<flow, pc, query, browser, recognized_text, processed,
                   song_info_label, dialog, lyrics_label, escaped,
                   selected_file,
                   recording, audio_chunks, cb, file_listbox, disk, clock>>

\* record_audio: recording = True
SetFlag(t) ==
    /\ tpc[t] = "set_flag"
    /\ recording' = TRUE
    /\ tpc' = [tpc EXCEPT ![t] = "reset"]
    /\ UNCHANGED <<flow, pc, query, browser, gui, audio_chunks, cb,
                   file_listbox, disk, clock>>

\* record_audio: audio_chunks = []
ResetChunks(t) ==
    /\ tpc[t] = "reset"
    /\ audio_chunks' = <<>>
    /\ tpc' = [tpc EXCEPT ![t] = "open"]
    /\ UNCHANGED <<flow, pc, query, browser, gui, recording, cb,
                   file_listbox, disk, clock>>

\* record_audio: with sd.InputStream(...).  When it raises, the thread ends
\* (flow B prints the exception, flow A lets it end the thread); recording
\* is left as it is.
OpenStream(t, in) ==
    /\ tpc[t] = "open"
    /\ tpc' = [tpc EXCEPT ![t] = IF in = "ok" THEN "check" ELSE "ended"]
    /\ UNCHANGED <<flow, pc, query, browser, gui, recording, audio_chunks,
                   cb, file_listbox, disk, clock>>

\* record_audio: `while recording`, tested once: found false, the thread
\* is past the loop for good.
LoopCheck(t) ==
    /\ tpc[t] = "check"
    /\ tpc' = [tpc EXCEPT ![t] = IF recording THEN "sleep" ELSE "closing"]
    /\ UNCHANGED <<flow, pc, query, browser, gui, recording, audio_chunks,
                   cb, file_listbox, disk, clock>>

\* record_audio: the with block is left; until then the stream still
\* delivers blocks.  The stream is stopped once a callback in flight has
\* returned, and the thread ends.
CloseStream(t) ==
    /\ tpc[t] = "closing"
    /\ cb[t] = "idle"
    /\ tpc' = [tpc EXCEPT ![t] = "ended"]
    /\ UNCHANGED <<flow, pc, query, browser, gui, recording, audio_chunks,
                   cb, file_listbox, disk, clock>>

\* record_audio: sd.sleep(100) returns
LoopSleep(t) ==
    /\ tpc[t] = "sleep"
    /\ tpc' = [tpc EXCEPT ![t] = "check"]
    /\ UNCHANGED <<flow, pc, query, browser, gui, recording, audio_chunks,
                   cb, file_listbox, disk, clock>>

\* callback: `if recording` found true for a block of thread t's stream
\* (found false, the callback returns and nothing changes)
CallbackCheck(t) ==
    /\ tpc[t] \in Streaming
    /\ cb[t] = "idle"
    /\ recording
    /\ Len(audio_chunks) + InFlight < MaxChunks
    /\ cb' = [cb EXCEPT ![t] = "append"]
    /\ UNCHANGED <<flow, pc, query, browser, gui, recording, audio_chunks,
                   tpc, file_listbox, disk, clock>>

\* callback: audio_chunks.append(indata.copy()), on whatever list the
\* global names now
CallbackAppend(t) ==
    /\ cb[t] = "append"
    /\ audio_chunks' = Append(audio_chunks, t)
    /\ cb' = [cb EXCEPT ![t] = "idle"]
    /\ UNCHANGED <<flow, pc, query, browser, gui, recording, tpc,
                   file_listbox, disk, clock>>

\* stop_recording, stop_recording_and_save: recording = False, then
\* time.sleep(0.5) begins
StopBegin ==
    /\ pc = "idle"
    /\ Len(file_listbox) < MaxFiles
    /\ recording' = FALSE
    /\ pc' = "stopping"
    /\ UNCHANGED <<flow, query, browser, gui, audio_chunks, tpc, cb,
                   file_listbox, disk, clock>>

\* self.file_listbox.insert: flow A at tk.END, flow B at index 0
Inserted(f) ==
    IF profile = "A" THEN Append(file_listbox, f) ELSE <<f>> \o file_listbox

\* stop_recording_and_save after the sleep, and the rest of stop_recording.
\* tick: the seconds gone by since the last look at the clock.  With blocks
\* in audio_chunks they are written under the name of the present second and
\* the name is put into the list box; when writing raises, flow B returns
\* None and flow A's exception leaves the handler.  audio_chunks is left as
\* it is.
StopSave(in, tick) ==
    /\ pc = "stopping"
    /\ clock + tick <= MaxClock
    /\ clock' = clock + tick
    /\ pc' = "idle"
    /\ IF audio_chunks # <<>> /\ in = "ok"
       THEN /\ disk' = [disk EXCEPT ![clock'] = audio_chunks]
            /\ file_listbox' = Inserted(clock')
            /\ status_label' = "saved"
            /\ UNCHANGED escaped
       ELSE IF audio_chunks # <<>> /\ profile = "A"
       THEN /\ escaped' = TRUE
            /\ UNCHANGED <<disk, file_listbox, status_label>>
       ELSE /\ status_label' = "no_data"
            /\ UNCHANGED <<disk, file_listbox, escaped>>
    /\ UNCHANGED <<flow, query, browser, recognized_text, processed,
                   song_info_label, dialog, lyrics_label, selected_file,
                   recording,
                   audio_chunks, tpc, cb>>

\* one step of capture thread t
ThreadStep(t) ==
    \/ SetFlag(t)
    \/ ResetChunks(t)
    \/ \E in \in CallInputs : OpenStream(t, in)
    \/ LoopCheck(t)
    \/ LoopSleep(t)
    \/ CloseStream(t)

RecNext ==
    \/ StartRecording
    \/ StopBegin
    \/ \E in \in CallInputs, tick \in {0, 1} : StopSave(in, tick)
    \/ \E t \in Threads : SetFlag(t)
    \/ \E t \in Threads : ResetChunks(t)
    \/ \E t \in Threads, in \in CallInputs : OpenStream(t, in)
    \/ \E t \in Threads : LoopCheck(t)
    \/ \E t \in Threads : LoopSleep(t)
    \/ \E t \in Threads : CloseStream(t)
    \/ \E t \in Threads : CallbackCheck(t)
    \/ \E t \in Threads : CallbackAppend(t)

RecSpec == RecInit /\ [][RecNext]_vars

\* A started thread keeps running, a callback past its test appends, and
\* the Done handler runs to its end.  Nothing makes the user press a button
\* or the device deliver a block.
RecFairSpec ==
    /\ RecSpec
    /\ \A t \in Threads : WF_vars(ThreadStep(t))
    /\ \A t \in Threads : WF_vars(CallbackAppend(t))
    /\ WF_vars(\E in \in CallInputs, tick \in {0, 1} : StopSave(in, tick))

\* ------------------------------------------- the Query Builder on its own
\* process_recognition_result(q_text) is called and its value kept.
BuildQuery ==
    /\ "unset" \in DOMAIN q_result
    /\ q_result' = process_recognition_result(profile, q_text)
    /\ UNCHANGED <<flow, pc, gui, browser, rec, q_text>>

QueryNext == BuildQuery

QuerySpec == QueryInit /\ [][QueryNext]_vars

\* ------------------------------------------------------------- properties
Count(op) == Cardinality({i \in 1..Len(ops) : ops[i] = op})

Called(op) == op \in Range(ops)

\* open_song_with_selenium was called and has handed control back to find_song
Finished == ret # "pending"

LaunchFailed == step["launch"] \in {"install_raises", "chrome_raises"}
OpenFailed == step["open"] = "raises"
FirstFailed == step["first"] \in {"find_raises", "click_raises"}
PlayFailed == step["play"] \in {"find_raises", "click_raises"}

\* the driver calls of the steps that follow step 2
LaterStepOps ==
    {"current_window_handle", "window_handles", "switch_to", "find_close",
     "click_close", "find_play", "click_play", "script"}

\* the driver calls of the navigation sequence (everything but the launch)
NavigationOps ==
    LaterStepOps \cup {"get", "find_first", "click_first", "quit"}

\* C1: in both flows, once the step-2 lookup or click of the first result
\* has failed, no later step runs: no window enumeration or switch, no
\* interstitial-close lookup, no play-button lookup, no play() script.
C1_FirstFailureStopsSequence ==
    FirstFailed =>
        /\ Range(ops) \cap LaterStepOps = {}
        /\ \A s \in {"switch", "popup", "play", "fallback"} : step[s] = "none"

\* C1 witness: flow B ended after the click on the first result raised.
C1_Witness ==
    /\ profile = "B"
    /\ step["first"] = "click_raises"
    /\ Called("click_first")
    /\ pc = "done"

\* C2: in flow B, once steps 1 and 2 have succeeded the play-button lookup
\* of step 5 is eventually attempted, whatever fails in steps 3 and 4.
C2_PlayLookupEventuallyAttempted ==
    (profile = "B" /\ step["first"] = "ok") ~> Called("find_play")

\* C2 witness: the window switch raised, the popup close button was not
\* found, and the play-button lookup was attempted all the same.
C2_Witness ==
    /\ profile = "B"
    /\ step["switch"] = "switch_raises"
    /\ step["popup"] = "find_raises"
    /\ Called("find_play")

\* C3 (as claimed): when driver.get fails, in both flows, nothing is located,
\* clicked or scripted afterwards, the session has been quit when the
\* function hands control back, and the caller is told of a failure.
C3_PageLoadFailureTearsDown ==
    (OpenFailed /\ Finished) =>
        /\ Range(ops) \cap (LaterStepOps \cup {"find_first", "click_first"}) = {}
        /\ session = "quit"
        /\ ret \in {"None", "raised"}

\* C4 (as claimed): when the launch fails, in both flows, an error value is
\* returned to the caller, no navigation call is made and no session is held.
C4_LaunchFailureReturnsError ==
    LaunchFailed =>
        /\ Finished => ret = "None"
        /\ Range(ops) \cap NavigationOps = {}
        /\ session = "none"

\* C5: the fallback script runs exactly once in a run where the step-5
\* lookup or click failed, never in a run where the play-button click
\* succeeded, and never twice.
C5_FallbackExactlyOnFailure ==
    /\ (PlayFailed /\ Finished) => Count("script") = 1
    /\ step["play"] = "ok" => Count("script") = 0
    /\ Count("script") <= 1

\* C5 witness: the play button was found, its click raised, and the run
\* ended with one script call.
C5_Witness ==
    /\ step["play"] = "click_raises"
    /\ Count("script") = 1
    /\ pc = "done"

\* the last line printed
LastSaid == IF printed = <<>> THEN "" ELSE printed[Len(printed)]

\* step 5 failed and the fallback script failed as well
PlaybackUnavailable == PlayFailed /\ step["fallback"] = "raises"

\* playback was started, by the play button or by the script
PlaybackEngaged == step["play"] = "ok" \/ step["fallback"] = "ok"

\* C6 (as claimed): when the step-5 lookup fails and the fallback fails too,
\* no exception escapes, the run is not aborted, and what the caller gets
\* differs from what it gets when playback was engaged (the open driver,
\* see C6_SameOutcomeAsEngaged).
C6_UnavailableReportedApart ==
    (PlaybackUnavailable /\ Finished) =>
        /\ ret \notin {"raised", "None"}
        /\ <<ret, session>> # <<"driver", "open">>

\* C6 (amended): when step 5 fails and the fallback fails too, no exception
\* escapes and the run is not aborted; the function returns the open driver,
\* which is exactly what it returns when playback was engaged, and the
\* failure shows only in the printed line.
C6_SameOutcomeAsEngaged ==
    /\ (PlaybackUnavailable /\ Finished) =>
            /\ ret = "driver"
            /\ session = "open"
            /\ LastSaid = "js_failed"
            /\ pc = "done" => ~escaped
    /\ (PlaybackEngaged /\ Finished) =>
            /\ ret = "driver"
            /\ session = "open"
            /\ LastSaid \in {"play_clicked", "js_played"}

\* C6 witness: flow B ended after the play-button lookup and the script both
\* raised.
C6_Witness ==
    /\ profile = "B"
    /\ step["play"] = "find_raises"
    /\ step["fallback"] = "raises"
    /\ pc = "done"
    /\ ret = "driver"

\* C7: in both flows, once steps 1 and 2 have succeeded the session is never
\* quit, whatever happens in the later steps, and the function returns the
\* open driver.
C7_NoQuitPastStepTwo ==
    step["first"] = "ok" =>
        /\ session = "open"
        /\ ~Called("quit")
        /\ Finished => ret = "driver"

\* C7 witness: every step after step 2 failed and the session is open at the
\* end.
C7_Witness ==
    /\ step["first"] = "ok"
    /\ step["switch"] = "handles_raises"
    /\ step["popup"] = "click_raises"
    /\ step["play"] = "find_raises"
    /\ step["fallback"] = "raises"
    /\ pc = "done"
    /\ session = "open"

\* a failure other than an empty transcript, a launch failure or a
\* page-load failure
OtherFailure ==
    \/ FirstFailed
    \/ step["switch"] \in {"current_raises", "handles_raises", "switch_raises"}
    \/ step["popup"] \in {"find_raises", "click_raises"}
    \/ PlayFailed
    \/ step["fallback"] = "raises"

\* recognize_lyrics returned the empty transcript
EmptyTranscript == dialog = "error"

\* find_song found no row selected (curselection() empty) and returned
\* after the warning; rows hold file names, numbered from 1
NothingSelected == pc # "idle" /\ selected_file = 0

\* recognize_lyrics raised: the exception left find_song before
\* recognized_text was assigned
RecognitionRaised == escaped /\ ret = "pending" /\ recognized_text = <<>>

\* a non-empty transcript was assigned and an exception then left find_song
\* before open_song_with_selenium was called.  The transcript is one that is
\* not encodable as UTF-8; what raises is the first statement that encodes
\* it: the print of the transcript when stdout is strict, otherwise
\* quote_plus in process_recognition_result.  Both leave this state.
RaisedAfterTranscript == escaped /\ ret = "pending" /\ recognized_text # <<>>

\* find_song ended before it had any transcript: nothing was selected, or
\* recognize_lyrics raised
NoTranscriptObtained == NothingSelected \/ RecognitionRaised

\* C8 (as claimed): after every failure other than an empty transcript, a
\* launch failure or a page-load failure, the caller has an open session.
C8_OtherFailuresLeaveSessionOpen ==
    (OtherFailure /\ Finished) => (session = "open" /\ ret = "driver")

\* C8 (amended): once a transcript was obtained, the run stops exactly on an
\* empty transcript, an exception that leaves find_song between the
\* assignment of the transcript and the browser call (a transcript that is
\* not encodable: the print of it or process_recognition_result raises),
\* a launch failure, a page-load failure and, in flow B, a failure of the
\* first-result lookup or click (B then quits the session and returns None);
\* after every other failure the open session is returned.
C8_StopsOnlyOnAbortSteps ==
    /\ (OtherFailure /\ Finished /\ ~(profile = "B" /\ FirstFailed)) =>
            (session = "open" /\ ret = "driver")
    /\ (profile = "B" /\ FirstFailed) => (session = "quit" /\ ret = "None")
    /\ (pc = "done" /\ ~NoTranscriptObtained) =>
            (ret # "driver" <=>
                \/ EmptyTranscript
                \/ RaisedAfterTranscript
                \/ LaunchFailed
                \/ OpenFailed
                \/ (profile = "B" /\ FirstFailed))

\* C8 witness: flow B ended with the session quit after the first-result
\* lookup raised.
C8_Witness ==
    /\ profile = "B"
    /\ step["first"] = "find_raises"
    /\ pc = "done"
    /\ session = "quit"
    /\ ret = "None"

\* C9 (as claimed): an abort at step 2 is reported to the caller by a value
\* that tells it apart from a launch failure and from a page-load failure
\* (both of which hand back None, see C9_ReturnTellsOpenFromStopped).
C9_AbortAtStepTwoDistinguishable ==
    (profile = "B" /\ FirstFailed /\ Finished) => ret # "None"

\* C9 (amended): flow B hands its caller the driver when the run went past
\* step 2 and None when the launch, the page load or step 2 failed; the three
\* are told apart by the printed line only, and find_song sets the same
\* status text whichever value came back.
C9_ReturnTellsOpenFromStopped ==
    (profile = "B" /\ Finished) =>
        /\ ret \in {"None", "driver"}
        /\ ret = "None" <=> (LaunchFailed \/ OpenFailed \/ FirstFailed)
        /\ ret = "driver" <=> step["first"] = "ok"
        /\ LaunchFailed => LastSaid = "launch_failed"
        /\ OpenFailed => LastSaid = "page_failed"
        /\ FirstFailed => LastSaid = "first_failed"
        /\ pc = "done" => (status_label = "in_progress" /\ ~escaped)

\* C9 witness: flow B aborted at step 2, returned None, and find_song showed
\* the usual status text.
C9_Witness ==
    /\ profile = "B"
    /\ step["first"] = "click_raises"
    /\ ret = "None"
    /\ pc = "done"
    /\ status_label = "in_progress"

\* handle h is the first one of the enumeration that is not the window the
\* session started with
FirstOther(h) ==
    \E i \in 1..Len(handles) :
        /\ handles[i] = h
        /\ h # FirstWindow
        /\ \A j \in 1..(i - 1) : handles[j] = FirstWindow

\* C10 (as claimed): after step 3, with more than one window the first
\* window other than the original has the focus and one switch was made;
\* with one window no switch was made and the original has the focus; an
\* open session always has exactly one of its windows active.
C10_SwitchesToFirstOther ==
    /\ step["switch"] # "none" =>
            /\ Len(handles) > 1 => (FirstOther(active) /\ Count("switch_to") = 1)
            /\ Len(handles) = 1 =>
                    (active = FirstWindow /\ Count("switch_to") = 0)
    /\ session = "open" => active \in Range(handles)

\* C10 (amended): the same, for a step 3 in which no call raised; when the
\* lookup of the current window or the enumeration raised, no switch was made
\* and the original window has the focus; when the switch itself raised, one
\* switch was attempted.
C10_SwitchesToFirstOtherUnlessRaised ==
    /\ step["switch"] = "ok" =>
            /\ Len(handles) > 1 => (FirstOther(active) /\ Count("switch_to") = 1)
            /\ Len(handles) = 1 =>
                    (active = FirstWindow /\ Count("switch_to") = 0)
    /\ step["switch"] \in {"current_raises", "handles_raises"} =>
            (active = FirstWindow /\ Count("switch_to") = 0)
    /\ step["switch"] = "switch_raises" =>
            (Len(handles) > 1 /\ Count("switch_to") = 1)
    /\ session = "open" => active \in Range(handles)

\* C10 witness: three windows, the original enumerated first, and the
\* second one has the focus after the switch.
C10_Witness ==
    /\ step["switch"] = "ok"
    /\ Len(handles) = 3
    /\ handles[1] = FirstWindow
    /\ active = handles[2]
    /\ Count("switch_to") = 1

\* every call the launcher and the sequence can make
AllOps == NavigationOps \cup {"install", "Chrome"}

CountSaid(m) == Cardinality({i \in 1..Len(printed) : printed[i] = m})

\* op a was called, once, right after op l
RightAfter(l, a) ==
    \E i \in 1..(Len(ops) - 1) : ops[i] = l /\ ops[i + 1] = a

SwitchFailed ==
    step["switch"] \in {"current_raises", "handles_raises", "switch_raises"}

PopupFailed == step["popup"] \in {"find_raises", "click_raises"}

\* C11: no step is retried.  Every call is made at most once in a run; a
\* click is made only right after its own lookup, and only when that lookup
\* succeeded; every failure is handled once: its line is printed once and
\* only for a step that failed, and a failed step 5 leads to one fallback.
C11_NoStepRetried ==
    /\ \A op \in AllOps : Count(op) <= 1
    /\ \A s \in {"first", "close", "play"} :
            Called("click_" \o s) => RightAfter("find_" \o s, "click_" \o s)
    /\ Called("click_first") => step["first"] # "find_raises"
    /\ Called("click_close") => step["popup"] # "find_raises"
    /\ Called("click_play") => step["play"] # "find_raises"
    /\ CountSaid("launch_failed") = IF profile = "B" /\ LaunchFailed THEN 1 ELSE 0
    /\ CountSaid("page_failed") = IF profile = "B" /\ OpenFailed THEN 1 ELSE 0
    /\ CountSaid("first_failed") = IF FirstFailed THEN 1 ELSE 0
    /\ CountSaid("switch_failed") = IF SwitchFailed THEN 1 ELSE 0
    /\ CountSaid("popup_failed") = IF PopupFailed THEN 1 ELSE 0
    /\ CountSaid("js_failed") = IF step["fallback"] = "raises" THEN 1 ELSE 0
    /\ PlayFailed => (pc = "fallback" \/ Count("script") = 1)

\* C11 witness: flow B ended after the close button was not found, the click
\* on the play button raised and the script raised: one lookup each, no click
\* on the close button, one script.
C11_Witness ==
    /\ profile = "B"
    /\ step["popup"] = "find_raises"
    /\ step["play"] = "click_raises"
    /\ step["fallback"] = "raises"
    /\ Count("find_close") = 1
    /\ Count("click_close") = 0
    /\ Count("find_play") = 1
    /\ Count("script") = 1
    /\ pc = "done"

\* the calls in the one order the code makes them; quit ends a run
CallOrder ==
    <<"install", "Chrome", "get", "find_first", "click_first",
      "current_window_handle", "window_handles", "switch_to", "find_close",
      "click_close", "find_play", "click_play", "script", "quit">>

OpRank(op) == CHOOSE i \in 1..Len(CallOrder) : CallOrder[i] = op

\* the steps of a flow, in order
StepOrder ==
    IF profile = "B"
    THEN <<"launch", "open", "first", "switch", "popup", "play", "fallback">>
    ELSE <<"launch", "open", "first", "fallback">>

\* C12: the steps run in the fixed order launch, Opened, ResultsVisible,
\* ContextSwitch, InterstitialDismiss, PlaybackEngage, Playback Fallback:
\* the calls made so far are in that order with none made twice, a step has
\* an outcome only when every step before it has one, and the step the
\* thread is at has none yet.
C12_FixedStepOrder ==
    /\ \A i, j \in 1..Len(ops) : i < j => OpRank(ops[i]) < OpRank(ops[j])
    /\ \A i, j \in 1..Len(StepOrder) :
            (i < j /\ step[StepOrder[j]] # "none") => step[StepOrder[i]] # "none"
    /\ \A s \in StepNames \ Range(StepOrder) : step[s] = "none"
    /\ pc \in StepNames => step[pc] = "none"
    /\ step["fallback"] # "none" => (profile = "A" \/ PlayFailed)

\* C12 witness: flow B went through all seven steps.
C12_Witness ==
    /\ profile = "B"
    /\ \A s \in StepNames : step[s] # "none"
    /\ Len(handles) > 1
    /\ Len(ops) = 13
    /\ pc = "done"

\* open_song_with_selenium has been called
Invoked == pc \in StepNames \/ Finished

\* C14: find_song calls open_song_with_selenium only with a file selected, a
\* non-empty text from recognize_lyrics and a result of
\* process_recognition_result that holds no error, and without having shown
\* an error box; on every other path no launcher or driver call is made and
\* no session exists.
C14_BrowserOnlyAfterTranscript ==
    /\ Invoked =>
            /\ selected_file # 0
            /\ selected_file \in Range(file_listbox)
            /\ recognized_text # <<>>
            /\ "error" \notin DOMAIN processed
            /\ "song_url" \in DOMAIN processed
            /\ dialog # "error"
    /\ ~Invoked => (ops = <<>> /\ session = "none")

\* C14 witness: the browser was launched for the selected file and a
\* non-empty transcript.
C14_Witness ==
    /\ Invoked
    /\ session = "open"
    /\ selected_file = 1
    /\ recognized_text = <<97, 32, 98>>

\* C18: flow B returns None exactly when no session was created or the
\* session has been quit, and the driver exactly when the session is open;
\* at most one session is created in a run.
C18_ReturnMatchesSession ==
    /\ (profile = "B" /\ Finished) =>
            /\ ret \in {"None", "driver"}
            /\ ret = "None" <=> session \in {"none", "quit"}
            /\ ret = "driver" <=> session = "open"
    /\ Count("Chrome") <= 1
    /\ session # "none" => Count("Chrome") = 1

\* C18 witness: flow B returned None with the session quit after the page
\* load failed.
C18_Witness ==
    /\ profile = "B"
    /\ OpenFailed
    /\ ret = "None"
    /\ session = "quit"
    /\ pc = "done"

\* the Query Builder has been applied to q_text
Built == "unset" \notin DOMAIN q_result

\* C13: an empty transcript gives an error result and neither URL nor
\* title; every non-empty one gives a URL and a title and no error.
C13_ErrorExactlyOnEmpty ==
    Built =>
        IF q_text = <<>>
        THEN DOMAIN q_result = {"error"}
        ELSE DOMAIN q_result = {"song_url", "song_title"}

\* C15: the title is the transcript itself when it has at most 50
\* characters; otherwise it is the first 50 characters followed by three
\* full stops, 53 characters in all.
C15_TitleCutAtFifty ==
    "song_title" \in DOMAIN q_result =>
        LET title == q_result.song_title
        IN  /\ Len(q_text) <= 50 => title = q_text
            /\ Len(q_text) > 50 =>
                    /\ Len(title) = 53
                    /\ \A i \in 1..50 : title[i] = q_text[i]
                    /\ \A i \in 51..53 : title[i] = 46
            /\ Len(title) <= 53

\* C15 witness: a transcript of 51 characters, the last one a Hangul
\* syllable, got a title of 53 characters.
C15_Witness ==
    /\ Len(q_text) = 51
    /\ q_text[51] = 50504
    /\ "song_title" \in DOMAIN q_result
    /\ Len(q_result.song_title) = 53

\* the position of the first c in s (0: none)
RECURSIVE IndexOf(_, _)
IndexOf(s, c) ==
    IF s = <<>> THEN 0
    ELSE IF Head(s) = c THEN 1
    ELSE LET i == IndexOf(Tail(s), c) IN IF i = 0 THEN 0 ELSE i + 1

Occurrences(s, c) == Cardinality({i \in 1..Len(s) : s[i] = c})

\* what follows the first '?' of a URL
QueryString(url) == SubSeq(url, IndexOf(url, 63) + 1, Len(url))

\* name and value of a name=value pair
ParamName(pair) == SubSeq(pair, 1, IndexOf(pair, 61) - 1)

ParamValue(pair) == SubSeq(pair, IndexOf(pair, 61) + 1, Len(pair))

\* the value of one hexadecimal digit
HexValue(c) ==
    IF c \in 48..57 THEN c - 48
    ELSE IF c \in 65..70 THEN c - 55
    ELSE c - 87

\* percent-decoding into bytes: %XX is the byte XX, anything else is itself
RECURSIVE UnquoteBytes(_)
UnquoteBytes(q) ==
    IF q = <<>> THEN <<>>
    ELSE IF Head(q) = 37 /\ Len(q) >= 3
    THEN <<16 * HexValue(q[2]) + HexValue(q[3])>>
            \o UnquoteBytes(SubSeq(q, 4, Len(q)))
    ELSE <<Head(q)>> \o UnquoteBytes(Tail(q))

\* decoding of a form-encoded value into bytes: every '+' is a space, then
\* percent-decoding
UnquotePlusBytes(q) ==
    UnquoteBytes([i \in 1..Len(q) |-> IF q[i] = 43 THEN 32 ELSE q[i]])

\* how many bytes a UTF-8 sequence starting with byte b has
Utf8Length(b) == IF b < 128 THEN 1 ELSE IF b < 224 THEN 2 ELSE IF b < 240 THEN 3 ELSE 4

\* the code point of one UTF-8 sequence
Utf8Value(bs) ==
    IF Len(bs) = 1 THEN bs[1]
    ELSE IF Len(bs) = 2 THEN (bs[1] - 192) * 64 + (bs[2] - 128)
    ELSE IF Len(bs) = 3
    THEN (bs[1] - 224) * 4096 + (bs[2] - 128) * 64 + (bs[3] - 128)
    ELSE (bs[1] - 240) * 262144 + (bs[2] - 128) * 4096
            + (bs[3] - 128) * 64 + (bs[4] - 128)

\* UTF-8 decoding (<<-1>>: the bytes end inside a sequence)
RECURSIVE Decode(_)
Decode(bs) ==
    IF bs = <<>> THEN <<>>
    ELSE LET n == Utf8Length(Head(bs))
         IN  IF Len(bs) < n THEN <<-1>>
             ELSE <<Utf8Value(SubSeq(bs, 1, n))>>
                    \o Decode(SubSeq(bs, n + 1, Len(bs)))

\* "search_query" and "q"
ParamNameA == <<115, 101, 97, 114, 99, 104, 95, 113, 117, 101, 114, 121>>

ParamNameB == <<113>>

\* the URL is the search endpoint, one '?', and one parameter name=value
SingleParameter(url) ==
    LET qs == QueryString(url)
    IN  /\ Occurrences(url, 63) = 1
        /\ Occurrences(qs, 61) = 1
        /\ 38 \notin Range(qs)
        /\ 35 \notin Range(url)
        /\ 32 \notin Range(url)
        /\ ParamName(qs) = IF profile = "A" THEN ParamNameA ELSE ParamNameB
        /\ url = SubSeq(url, 1, IndexOf(url, 63)) \o ParamName(qs)
                    \o <<61>> \o ParamValue(qs)

\* the value of the URL's parameter
QueryValue == ParamValue(QueryString(q_result.song_url))

\* C16 as stated: the URL has a single parameter, and percent-decoding its
\* value gives back exactly the transcript, whatever spaces, '+', '&', '=',
\* '%' or non-ASCII characters it holds.
C16_PercentDecodesToTranscript ==
    "song_url" \in DOMAIN q_result =>
        /\ SingleParameter(q_result.song_url)
        /\ Decode(UnquoteBytes(QueryValue)) = q_text

\* C16 amended: the URL has a single parameter; decoding its value as a
\* form-encoded value ('+' is a space, then percent-decoding) gives back
\* exactly the transcript; percent-decoding alone gives the transcript with
\* '+' in place of every space.
C16_FormDecodesToTranscript ==
    "song_url" \in DOMAIN q_result =>
        /\ SingleParameter(q_result.song_url)
        /\ Decode(UnquotePlusBytes(QueryValue)) = q_text
        /\ Decode(UnquoteBytes(QueryValue))
                = [i \in 1..Len(q_text) |->
                        IF q_text[i] = 32 THEN 43 ELSE q_text[i]]

\* C16 witness: the transcript " +" became the value "+%2B" of flow B's
\* parameter q.
C16_Witness ==
    /\ profile = "B"
    /\ q_text = <<32, 43>>
    /\ "song_url" \in DOMAIN q_result
    /\ q_result.song_url = EndpointB \o <<43, 37, 50, 66>>

\* the capture threads created so far
NumStarted == Cardinality({t \in Threads : tpc[t] # "unborn"})

\* C19: once Done has set recording to False, unless a later Start is
\* issued, every capture thread an earlier Start created eventually has
\* left its loop and ended with no block of its stream about to be
\* appended -- also when Done ran before the new thread set recording.
C19_ThreadsEndAfterDone ==
    \A n \in 0..MaxStarts :
        (pc = "stopping" /\ NumStarted = n)
            ~> \/ NumStarted > n
               \/ \A t \in Threads :
                    tpc[t] # "unborn" => (tpc[t] = "ended" /\ cb[t] = "idle")

\* C20: at most one capture thread is inside record_audio at any time.
C20_OneCaptureThread ==
    Cardinality({t \in Threads : tpc[t] \in Alive}) <= 1

\* The label texts that tell that no Start was pressed since the previous
\* Done ended (or since construction): start_recording overwrites them.
NoStartSince == status_label \in {"start", "saved", "no_data"}

\* no capture thread is inside record_audio and no block is about to be
\* appended
NoCapture ==
    \A t \in Threads : tpc[t] \in {"unborn", "ended"} /\ cb[t] = "idle"

\* C21: a Done pressed with no Start since the previous Done -- twice in a
\* row, or before any Start -- and with no capture going on returns None
\* (the label tells of no data), adds nothing to the file list and writes
\* nothing: blocks already saved are not saved again.
C21_DoneWithoutStartSavesNothing ==
    [][(pc = "stopping" /\ pc' = "idle" /\ NoStartSince /\ NoCapture)
            => /\ status_label' = "no_data"
               /\ file_listbox' = file_listbox
               /\ disk' = disk]_vars

\* ------------------------------------- the two flows, one after the other
\* The shared stage at which the run failed ("none": at none of them).
FailureKind ==
    IF LaunchFailed THEN "launch"
    ELSE IF OpenFailed THEN "open"
    ELSE IF FirstFailed THEN "first"
    ELSE "none"

OtherProfile == IF profile = "A" THEN "B" ELSE "A"

\* open_song_with_selenium has ended in one script; how it ended is kept,
\* and the other script's open_song_with_selenium is called for the same
\* transcript with a browser of its own.
CallOtherFlow ==
    /\ pc = "returned"
    /\ other_run = NoRun
    /\ other_run' = [kind |-> FailureKind, open |-> session = "open",
                     ret |-> ret]
    /\ profile' = OtherProfile
    /\ processed' = process_recognition_result(OtherProfile, recognized_text)
    /\ session' = "none"
    /\ handles' = <<>>
    /\ active' = 0
    /\ ops' = <<>>
    /\ printed' = <<>>
    /\ ret' = "pending"
    /\ step' = [s \in StepNames |-> "none"]
    /\ pc' = "launch"
    /\ UNCHANGED <<rec, query, recognized_text, status_label,
                   song_info_label, dialog, lyrics_label, escaped,
                   selected_file>>

BothFlowsNext == Next \/ CallOtherFlow

BothFlowsSpec == Init /\ [][BothFlowsNext]_vars

\* C22: flows A and B agree on the stages they share: when both runs fail
\* at the launch, or both at the page load, or both at the first result,
\* they end with the session in the same state (open or not) and hand the
\* caller the same kind of result. ("driver": a live handle, "None": an
\* error value, "raised": a raised exception).
C22_FlowsAgreeOnSharedStages ==
    (Finished /\ FailureKind # "none" /\ other_run.kind = FailureKind) =>
        /\ (session = "open") = other_run.open
        /\ ret = other_run.ret

====
